---- MODULE Spec2Model ----
(***************************************************************************)
(* Multi-threaded file downloader (src/downloader.py).                     *)
(*                                                                         *)
(* download_file_in_chunks discovers the size of a remote resource with a  *)
(* HEAD request, splits it into num_threads byte ranges, fetches every     *)
(* range in a ThreadPoolExecutor (download_chunk streams the body of a     *)
(* ranged GET into <save_path>.part<i>), collects the scratch paths with   *)
(* as_completed and hands them to merge_files, which concatenates them     *)
(* into save_path and removes them.                                        *)
(*                                                                         *)
(* The remote resource is the byte sequence <<0, 1, ..., resource_len-1>>: *)
(* the byte at offset k has value k, so a missing, repeated or misplaced   *)
(* byte is visible in the content of a file.                               *)
(***************************************************************************)
EXTENDS Integers, Sequences, FiniteSets, TLC

\* Largest remote resource (bytes) and largest num_threads the model draws.
MaxSize == 3
MaxThreads == 2
\* Inputs of the planner-only specification PlanSpec.
PlanMaxSize == 12
PlanMaxThreads == 12

\* iter_content(chunk_size=1024): the block size of the streaming write.
BlockSize == 1024

VARIABLES
    resource_len,   \* length of the remote resource (the server's truth)
    has_length,     \* the HEAD response carries Content-Length
    num_threads,    \* argument of download_file_in_chunks
    run,            \* 1 for the first call of the job, 2 for the second
    pc,             \* position of the coordinator (download_file_in_chunks)
    err,            \* exception that left download_file_in_chunks, or "none"
    total_size,     \* local total_size (line 80)
    chunk_size,     \* local chunk_size (line 83)
    ranges,         \* local ranges (line 84): sequence of <<start, end>>
    futures,        \* local futures (line 94): the submitted calls
    fut,            \* state of the future of each chunk index
    resp,           \* response each download_chunk is streaming
    temp_files,     \* local temp_files (line 90): sequence of chunk indices
    collected,      \* futures already yielded by as_completed
    merge_pos,      \* position in temp_files merge_files is working on
    parts,          \* filesystem: <save_path>.part<i> for each index i
    output,         \* filesystem: save_path
    net             \* requests issued during the current call

vars == <<resource_len, has_length, num_threads, run, pc, err, total_size,
          chunk_size, ranges, futures, fut, resp, temp_files, collected,
          merge_pos, parts, output, net>>

-----------------------------------------------------------------------------
\* Helpers

Min(a, b) == IF a < b THEN a ELSE b

\* Chunk indices the model has room for, and those of the current job.
Idx == 0 .. (MaxThreads - 1)
Chunks == 0 .. (num_threads - 1)

\* A file of the filesystem: absent, or present with its bytes.
NoFile == [exists |-> FALSE, data |-> <<>>]
File(bytes) == [exists |-> TRUE, data |-> bytes]

\* The remote resource: the byte at offset k is k.
Resource == [k \in 1 .. resource_len |-> k - 1]

\* Bytes [s, e] (inclusive, 0-based) of the resource, clipped to its end.
Slice(s, e) == SubSeq(Resource, s + 1, Min(e, resource_len - 1) + 1)

\* Sequence without its last element (the empty sequence stays empty).
DropLast(q) == IF q = <<>> THEN <<>> ELSE SubSeq(q, 1, Len(q) - 1)

NoResp == [mode |-> "none", status |-> 0, body |-> <<>>, abort |-> FALSE]


-----------------------------------------------------------------------------
\* The server (what requests.head / requests.get return)

\* How a server may answer the ranged GET of download_chunk.
\*   exact  : 206 with exactly the requested bytes
\*   short  : 206 with a body one byte shorter than requested
\*   full   : 200 with the whole resource (the Range header is ignored)
\*   broken : 206, the connection drops before the last byte and
\*            iter_content raises
ServerModes == {"exact", "short", "full", "broken"}

\* The header f'bytes={start}-{end}' is a valid byte-range-spec only when
\* end >= start; a server ignores an invalid Range header and answers 200
\* with the whole resource.
ServerResponse(mode, s, e) ==
    IF mode = "full" \/ e < s
    THEN [mode |-> mode, status |-> 200, body |-> Resource, abort |-> FALSE]
    ELSE IF mode = "exact"
    THEN [mode |-> mode, status |-> 206, body |-> Slice(s, e), abort |-> FALSE]
    ELSE [mode |-> mode, status |-> 206, body |-> DropLast(Slice(s, e)),
          abort |-> (mode = "broken")]

-----------------------------------------------------------------------------
\* download_file_in_chunks: argument check, size discovery, planning

\* Variant of the argument check that lets num_threads = 0 through.
InvalidThreadsStrict(n) == n < 0

\* Line 75: if num_threads <= 0
InvalidThreads(n) == n <= 0

\* Line 83: chunk_size = total_size // num_threads
ChunkSize(total, n) == total \div n

\* Variant of the planner whose ends are one byte too far
\* ((i+1)*chunk_size instead of (i+1)*chunk_size - 1).
PlanRangesOverlap(total, n) ==
    [k \in 1 .. n |->
        <<(k - 1) * (total \div n), Min(k * (total \div n), total - 1)>>]

\* Line 84: ranges = [(i*chunk_size, min((i+1)*chunk_size - 1, total_size - 1))
\*                    for i in range(num_threads)]
\* (1-based here: entry k is the range of chunk index k-1)
PlanRanges(total, n) ==
    [k \in 1 .. n |->
        <<(k - 1) * ChunkSize(total, n),
          Min(k * ChunkSize(total, n) - 1, total - 1)>>]

\* Line 93: ThreadPoolExecutor(max_workers=num_threads)
MaxWorkers(n) == n

\* Futures whose download_chunk is executing on a worker thread.
InFlight == {i \in Idx : fut[i] = "write"}
\* Variant of the settled test that counts only the futures that returned.
SettledOnlyDone(i) == fut[i] = "done"

\* A future is settled once its call has returned or raised.
Settled(i) == fut[i] \in {"done", "failed"}

NoNet == [head |-> FALSE, get |-> {}]

\* State of the locals before the call starts.
FreshLocals ==
    /\ err = "none"
    /\ total_size = 0
    /\ chunk_size = 0
    /\ ranges = <<>>
    /\ futures = <<>>
    /\ fut = [i \in Idx |-> "none"]
    /\ resp = [i \in Idx |-> NoResp]
    /\ temp_files = <<>>
    /\ collected = {}
    /\ merge_pos = 0
    /\ net = NoNet

Init ==
    /\ resource_len \in 1 .. MaxSize
    /\ has_length \in BOOLEAN
    /\ num_threads \in {-1} \cup (0 .. MaxThreads)
    /\ run = 1
    /\ pc = "call"
    /\ FreshLocals
    /\ parts = [i \in Idx |-> NoFile]
    /\ output = NoFile

\* Lines 75-76: the argument check.
Call ==
    /\ pc = "call"
    /\ IF InvalidThreads(num_threads)
       THEN pc' = "raised" /\ err' = "ValueError"
       ELSE pc' = "head" /\ err' = err
    /\ UNCHANGED <<resource_len, has_length, num_threads, run, total_size,
                   chunk_size, ranges, futures, fut, resp, temp_files,
                   collected, merge_pos, parts, output, net>>

\* Variant of the size discovery that takes a missing Content-Length as 0
\* (headers.get('Content-Length', 0)) and goes on to plan.
HeadRequestDefaultsSize ==
    /\ pc = "head"
    /\ net' = [net EXCEPT !.head = TRUE]
    /\ pc' = "plan"
    /\ total_size' = IF has_length THEN resource_len ELSE 0
    /\ UNCHANGED <<resource_len, has_length, num_threads, run, err,
                   chunk_size, ranges, futures, fut, resp, temp_files,
                   collected, merge_pos, parts, output>>

\* Lines 79-80: requests.head and int(response.headers['Content-Length']);
\* a response without the header raises KeyError.
HeadRequest ==
    /\ pc = "head"
    /\ net' = [net EXCEPT !.head = TRUE]
    /\ IF has_length
       THEN pc' = "plan" /\ total_size' = resource_len /\ err' = err
       ELSE pc' = "raised" /\ err' = "KeyError" /\ total_size' = total_size
    /\ UNCHANGED <<resource_len, has_length, num_threads, run, chunk_size,
                   ranges, futures, fut, resp, temp_files, collected,
                   merge_pos, parts, output>>

\* Lines 83-90: chunk_size, ranges, (progress bars), temp_files = [].
Plan ==
    /\ pc = "plan"
    /\ chunk_size' = ChunkSize(total_size, num_threads)
    /\ ranges' = PlanRanges(total_size, num_threads)
    /\ temp_files' = <<>>
    /\ pc' = "submit"
    /\ UNCHANGED <<resource_len, has_length, num_threads, run, err,
                   total_size, futures, fut, resp, collected, merge_pos,
                   parts, output, net>>

\* Variant of the submit loop that passes index 0 to every download_chunk.
SubmitSameIndex ==
    /\ pc = "submit"
    /\ Len(futures) < Len(ranges)
    /\ LET k == Len(futures) + 1 IN
        /\ futures' = Append(futures,
               [index |-> 0, start |-> ranges[k][1], end |-> ranges[k][2]])
        /\ fut' = [fut EXCEPT ![k - 1] = "queued"]
        /\ pc' = IF k = Len(ranges) THEN "collect" ELSE "submit"
    /\ UNCHANGED <<resource_len, has_length, num_threads, run, err,
                   total_size, chunk_size, ranges, resp, temp_files,
                   collected, merge_pos, parts, output, net>>

\* Variant of the submit loop that stops one range early.
SubmitStopsEarly ==
    /\ pc = "submit"
    /\ Len(futures) < Len(ranges)
    /\ LET k == Len(futures) + 1 IN
        /\ futures' = Append(futures,
               [index |-> k - 1, start |-> ranges[k][1], end |-> ranges[k][2]])
        /\ fut' = [fut EXCEPT ![k - 1] = "queued"]
        /\ pc' = IF k >= Len(ranges) - 1 THEN "collect" ELSE "submit"
    /\ UNCHANGED <<resource_len, has_length, num_threads, run, err,
                   total_size, chunk_size, ranges, resp, temp_files,
                   collected, merge_pos, parts, output, net>>

\* Lines 95-97: one executor.submit per entry of ranges, in index order;
\* after the last one the coordinator enters the as_completed loop.
Submit ==
    /\ pc = "submit"
    /\ Len(futures) < Len(ranges)
    /\ LET k == Len(futures) + 1 IN
        /\ futures' = Append(futures,
               [index |-> k - 1, start |-> ranges[k][1], end |-> ranges[k][2]])
        /\ fut' = [fut EXCEPT ![k - 1] = "queued"]
        /\ pc' = IF k = Len(ranges) THEN "collect" ELSE "submit"
    /\ UNCHANGED <<resource_len, has_length, num_threads, run, err,
                   total_size, chunk_size, ranges, resp, temp_files,
                   collected, merge_pos, parts, output, net>>

-----------------------------------------------------------------------------
\* download_chunk, run by a worker thread of the pool

\* Arguments the future of chunk index i was submitted with.
Args(i) == futures[i + 1]

\* Lines 35-40: a free worker takes the queued call and issues the ranged
\* GET. requests.get either raises, or returns a response to stream and
\* open(f"{save_path}.part{thread_index}", 'wb') creates the scratch file
\* or truncates the one that is there.
Get(i) ==
    /\ fut[i] = "queued"
    /\ Cardinality(InFlight) < MaxWorkers(num_threads)
    /\ net' = [net EXCEPT !.get = @ \cup {i}]
    /\ \/ /\ fut' = [fut EXCEPT ![i] = "failed"]
          /\ UNCHANGED <<resp, parts>>
       \/ \E mode \in ServerModes :
          /\ fut' = [fut EXCEPT ![i] = "write"]
          /\ resp' = [resp EXCEPT
                 ![i] = ServerResponse(mode, Args(i).start, Args(i).end)]
          /\ parts' = [parts EXCEPT ![Args(i).index] = File(<<>>)]
    /\ UNCHANGED <<resource_len, has_length, num_threads, run, pc, err,
                   total_size, chunk_size, ranges, futures, temp_files,
                   collected, merge_pos, output>>

\* Lines 41-44: one iteration of the iter_content loop writes one block.
Write(i) ==
    /\ fut[i] = "write"
    /\ resp[i].body # <<>>
    /\ LET n == Min(BlockSize, Len(resp[i].body))
           p == Args(i).index IN
        /\ parts' = [parts EXCEPT
               ![p] = File(parts[p].data \o SubSeq(resp[i].body, 1, n))]
        /\ resp' = [resp EXCEPT
               ![i].body = SubSeq(@, n + 1, Len(@))]
    /\ UNCHANGED <<resource_len, has_length, num_threads, run, pc, err,
                   total_size, chunk_size, ranges, futures, fut, temp_files,
                   collected, merge_pos, output, net>>

\* Lines 41, 46: the stream ends; iter_content raises when the connection
\* broke, otherwise download_chunk returns temp_file_path.
Finish(i) ==
    /\ fut[i] = "write"
    /\ resp[i].body = <<>>
    /\ fut' = [fut EXCEPT ![i] = IF resp[i].abort THEN "failed" ELSE "done"]
    /\ UNCHANGED <<resource_len, has_length, num_threads, run, pc, err,
                   total_size, chunk_size, ranges, futures, resp, temp_files,
                   collected, merge_pos, parts, output, net>>

-----------------------------------------------------------------------------
\* download_file_in_chunks: collecting the results, leaving the pool

\* Variant of the result of a future that swallows its exception.
ResultNeverRaises(i) == FALSE

\* Line 101: future.result() re-raises the exception of a failed call.
ResultRaises(i) == fut[i] = "failed"

\* Variant of the collection loop that leaves after the first result.
CollectStopsAfterFirst(i) ==
    /\ pc = "collect"
    /\ i \in Chunks \ collected
    /\ Settled(i)
    /\ IF ResultRaises(i)
       THEN /\ err' = "ChunkFetchFailed"
            /\ UNCHANGED <<temp_files, collected>>
       ELSE /\ temp_files' = Append(temp_files, Args(i).index)
            /\ collected' = collected \cup {i}
            /\ err' = err
    /\ pc' = "exit"
    /\ UNCHANGED <<resource_len, has_length, num_threads, run, total_size,
                   chunk_size, ranges, futures, fut, resp, merge_pos, parts,
                   output, net>>

\* Lines 100-101: as_completed yields a settled future that it has not
\* yielded yet; its result is appended to temp_files, or its exception
\* leaves the loop and the with-block.
Collect(i) ==
    /\ pc = "collect"
    /\ i \in Chunks \ collected
    /\ Settled(i)
    /\ IF ResultRaises(i)
       THEN /\ err' = "ChunkFetchFailed"
            /\ pc' = "exit"
            /\ UNCHANGED <<temp_files, collected>>
       ELSE /\ temp_files' = Append(temp_files, Args(i).index)
            /\ collected' = collected \cup {i}
            /\ pc' = IF collected' = Chunks THEN "exit" ELSE "collect"
            /\ err' = err
    /\ UNCHANGED <<resource_len, has_length, num_threads, run, total_size,
                   chunk_size, ranges, futures, fut, resp, merge_pos, parts,
                   output, net>>

\* Variant of the end of the with-block that does not wait for the calls
\* still running (shutdown(wait=False)).
ExitPoolNoWait ==
    /\ pc = "exit"
    /\ pc' = IF err = "none" THEN "merge" ELSE "raised"
    /\ UNCHANGED <<resource_len, has_length, num_threads, run, err,
                   total_size, chunk_size, ranges, futures, fut, resp,
                   temp_files, collected, merge_pos, parts, output, net>>

\* Line 93, end of the with-block: ThreadPoolExecutor.__exit__ calls
\* shutdown(wait=True), which returns once every submitted call has run to
\* its end; then the pending exception propagates or line 108 is reached.
ExitPool ==
    /\ pc = "exit"
    /\ \A i \in Chunks : Settled(i)
    /\ pc' = IF err = "none" THEN "merge" ELSE "raised"
    /\ UNCHANGED <<resource_len, has_length, num_threads, run, err,
                   total_size, chunk_size, ranges, futures, fut, resp,
                   temp_files, collected, merge_pos, parts, output, net>>

-----------------------------------------------------------------------------
\* merge_files

\* Line 57: open(save_path, 'wb') creates or truncates the output file.
MergeOpen ==
    /\ pc = "merge"
    /\ output' = File(<<>>)
    /\ merge_pos' = 1
    /\ pc' = IF temp_files = <<>> THEN "done" ELSE "copy"
    /\ UNCHANGED <<resource_len, has_length, num_threads, run, err,
                   total_size, chunk_size, ranges, futures, fut, resp,
                   temp_files, collected, parts, net>>

\* Variant of the copy that goes on to os.remove without writing the bytes.
MergeCopySkipsWrite ==
    /\ pc = "copy"
    /\ pc' = "remove"
    /\ UNCHANGED <<resource_len, has_length, num_threads, run, err,
                   total_size, chunk_size, ranges, futures, fut, resp,
                   temp_files, collected, merge_pos, parts, output, net>>

\* Lines 59-60: open(temp_file, 'rb') and final_file.write(f.read()).
MergeCopy ==
    /\ pc = "copy"
    /\ LET p == temp_files[merge_pos] IN
        IF parts[p].exists
        THEN /\ output' = File(output.data \o parts[p].data)
             /\ pc' = "remove"
             /\ err' = err
        ELSE /\ err' = "FileNotFoundError"
             /\ pc' = "raised"
             /\ output' = output
    /\ UNCHANGED <<resource_len, has_length, num_threads, run, total_size,
                   chunk_size, ranges, futures, fut, resp, temp_files,
                   collected, merge_pos, parts, net>>

\* Variant of the failing write that rolls the output file back.
MergeCopyFailRollsBack ==
    /\ pc = "copy"
    /\ parts[temp_files[merge_pos]].exists
    /\ output' = NoFile
    /\ err' = "OSError"
    /\ pc' = "raised"
    /\ UNCHANGED <<resource_len, has_length, num_threads, run, total_size,
                   chunk_size, ranges, futures, fut, resp, temp_files,
                   collected, merge_pos, parts, net>>

\* Line 60 failing (disk full, I/O error): the write stops after a proper
\* prefix of the scratch file's bytes and OSError leaves merge_files.
MergeCopyFail ==
    /\ pc = "copy"
    /\ LET p == temp_files[merge_pos] IN
        /\ parts[p].exists
        /\ \E n \in 0 .. (Len(parts[p].data) - 1) :
             output' = File(output.data \o SubSeq(parts[p].data, 1, n))
    /\ err' = "OSError"
    /\ pc' = "raised"
    /\ UNCHANGED <<resource_len, has_length, num_threads, run, total_size,
                   chunk_size, ranges, futures, fut, resp, temp_files,
                   collected, merge_pos, parts, net>>

\* Line 61 failing: os.remove raises OSError (permission denied, file in
\* use); the scratch file stays and its bytes are already in the output.
MergeRemoveFail ==
    /\ pc = "remove"
    /\ err' = "OSError"
    /\ pc' = "raised"
    /\ UNCHANGED <<resource_len, has_length, num_threads, run, total_size,
                   chunk_size, ranges, futures, fut, resp, temp_files,
                   collected, merge_pos, parts, output, net>>

\* Variant of the end of a merge iteration that leaves the scratch file.
MergeRemoveSkipped ==
    /\ pc = "remove"
    /\ merge_pos' = merge_pos + 1
    /\ pc' = IF merge_pos = Len(temp_files) THEN "done" ELSE "copy"
    /\ UNCHANGED <<resource_len, has_length, num_threads, run, err,
                   total_size, chunk_size, ranges, futures, fut, resp,
                   temp_files, collected, output, net, parts>>

\* Line 61: os.remove(temp_file), then the next entry of temp_files.
MergeRemove ==
    /\ pc = "remove"
    /\ parts' = [parts EXCEPT ![temp_files[merge_pos]] = NoFile]
    /\ merge_pos' = merge_pos + 1
    /\ pc' = IF merge_pos = Len(temp_files) THEN "done" ELSE "copy"
    /\ UNCHANGED <<resource_len, has_length, num_threads, run, err,
                   total_size, chunk_size, ranges, futures, fut, resp,
                   temp_files, collected, output, net>>

-----------------------------------------------------------------------------
\* Lines 110-118: the same job (same url, save_path, num_threads) is run a
\* second time over the files the first run left.
Rerun ==
    /\ pc \in {"done", "raised"}
    /\ run = 1
    /\ run' = 2
    /\ pc' = "call"
    /\ err' = "none"
    /\ total_size' = 0
    /\ chunk_size' = 0
    /\ ranges' = <<>>
    /\ futures' = <<>>
    /\ fut' = [i \in Idx |-> "none"]
    /\ resp' = [i \in Idx |-> NoResp]
    /\ temp_files' = <<>>
    /\ collected' = {}
    /\ merge_pos' = 0
    /\ net' = NoNet
    /\ UNCHANGED <<resource_len, has_length, num_threads, parts, output>>

Next ==
    \/ Call
    \/ HeadRequest
    \/ Plan
    \/ Submit
    \/ \E i \in Idx : Get(i)
    \/ \E i \in Idx : Write(i)
    \/ \E i \in Idx : Finish(i)
    \/ \E i \in Idx : Collect(i)
    \/ ExitPool
    \/ MergeOpen
    \/ MergeCopy
    \/ MergeCopyFail
    \/ MergeRemove
    \/ MergeRemoveFail
    \/ Rerun

Spec == Init /\ [][Next]_vars

-----------------------------------------------------------------------------
\* One call of download_file_in_chunks, with a coordinator that keeps
\* running: download_file_in_chunks is sequential code on the main thread,
\* so whenever one of its steps stays possible it is eventually taken.
\* Nothing is assumed about the worker threads and the network.

Coordinator ==
    \/ Call
    \/ HeadRequest
    \/ Plan
    \/ Submit
    \/ \E i \in Idx : Collect(i)
    \/ ExitPool
    \/ MergeOpen
    \/ MergeCopy
    \/ MergeCopyFail
    \/ MergeRemove
    \/ MergeRemoveFail

Workers ==
    \/ \E i \in Idx : Get(i)
    \/ \E i \in Idx : Write(i)
    \/ \E i \in Idx : Finish(i)

LiveNext == Coordinator \/ Workers

LiveSpec == Init /\ [][LiveNext]_vars /\ WF_vars(Coordinator)

-----------------------------------------------------------------------------
\* The planner alone, over a wider range of sizes and chunk counts: the call
\* has passed the argument check and the HEAD request and is about to plan.

PlanInit ==
    /\ resource_len \in 1 .. PlanMaxSize
    /\ has_length = TRUE
    /\ num_threads \in 1 .. PlanMaxThreads
    /\ run = 1
    /\ pc = "plan"
    /\ err = "none"
    /\ total_size = resource_len
    /\ chunk_size = 0
    /\ ranges = <<>>
    /\ futures = <<>>
    /\ fut = [i \in Idx |-> "none"]
    /\ resp = [i \in Idx |-> NoResp]
    /\ temp_files = <<>>
    /\ collected = {}
    /\ merge_pos = 0
    /\ net = [head |-> TRUE, get |-> {}]
    /\ parts = [i \in Idx |-> NoFile]
    /\ output = NoFile

PlanNext == Plan

PlanSpec == PlanInit /\ [][PlanNext]_vars

-----------------------------------------------------------------------------
\* Properties

\* Every chunk fetch of the current call was answered with exactly the
\* requested bytes.
AllExact == \A i \in Chunks : resp[i].mode = "exact"

\* temp_files in chunk-index order: <<0, 1, ..., num_threads-1>>.
IndexOrder == [k \in 1 .. num_threads |-> k - 1]

\* Bytes covered by a planned range.
Covered(r) == r[1] .. r[2]

\* C1: when 1 <= num_threads <= total_size and every chunk fetch is answered
\* with exactly the requested bytes, the output file of a returned download
\* holds exactly the bytes of the remote resource.
C1_OutputEqualsResource ==
    (pc = "done" /\ num_threads <= resource_len /\ AllExact)
        => output = File(Resource)

\* C2: whatever the completion order, the list handed to merge_files is in
\* chunk-index order.
C2_MergeInIndexOrder ==
    pc \in {"merge", "copy", "remove", "done"} => temp_files = IndexOrder

\* C3: for 1 <= num_chunks <= total_size the planner returns num_chunks
\* ranges, pairwise disjoint, whose union is exactly [0, total_size-1].
C3_RangesCoverExactly ==
    (pc = "submit" /\ num_threads <= total_size) =>
        /\ Len(ranges) = num_threads
        /\ UNION {Covered(ranges[k]) : k \in DOMAIN ranges}
               = 0 .. (total_size - 1)
        /\ \A j, k \in DOMAIN ranges :
               j # k => Covered(ranges[j]) \cap Covered(ranges[k]) = {}

\* C4: for 1 <= num_chunks <= total_size the last planned range ends at
\* total_size - 1; 10 bytes in 3 chunks are planned as (0,2),(3,5),(6,9).
C4_LastRangeAbsorbsRemainder ==
    (pc = "submit" /\ num_threads <= total_size) =>
        /\ ranges[num_threads][2] = total_size - 1
        /\ (total_size = 10 /\ num_threads = 3)
               => ranges = << <<0, 2>>, <<3, 5>>, <<6, 9>> >>

\* C5: with more chunks than bytes no range with end < start is produced
\* and no chunk fetch is dispatched.
C5_TooManyChunksRejected ==
    (has_length /\ num_threads > resource_len) =>
        /\ \A k \in DOMAIN ranges : ranges[k][2] >= ranges[k][1]
        /\ futures = <<>>

\* C6: with num_threads <= 0 the call fails at once with ValueError: no HEAD
\* and no GET is issued, and no scratch or output file is created.
C6_NonPositiveThreadsRejected ==
    num_threads <= 0 =>
        /\ pc \in {"call", "raised"}
        /\ pc = "raised" => err = "ValueError"
        /\ net = NoNet
        /\ \A i \in Idx : ~parts[i].exists
        /\ ~output.exists

C6_Witness == num_threads <= 0 /\ pc = "raised" /\ err = "ValueError"

\* C7: when the download returns the failure of a chunk fetch, no scratch
\* file of any chunk is left on disk.
C7_NoScratchAfterFailure ==
    (pc = "raised" /\ err = "ChunkFetchFailed")
        => \A i \in Idx : ~parts[i].exists

\* C8: the output file is created or written only when every chunk fetch of
\* the call has settled successfully: none is running, none has failed.
C8_OutputWrittenOnlyAfterAllSucceeded ==
    [][output' # output => \A i \in Chunks : fut[i] = "done"]_vars

C8_Witness ==
    /\ pc = "copy"
    /\ output.exists
    /\ num_threads >= 2
    /\ \A i \in Chunks : fut[i] = "done"

\* C9: after a successful download, the second run of the job included, no
\* scratch file is left for any chunk index and the output file exists.
C9_NoScratchAfterSuccess ==
    pc = "done" =>
        /\ \A i \in Idx : ~parts[i].exists
        /\ output.exists

C9_Witness == pc = "done" /\ run = 2 /\ num_threads >= 2

\* C10: at most num_threads chunk fetches are in flight at once, and the
\* futures are exactly one per planned range, in range order.
C10_BoundedOnePerRange ==
    /\ InFlight = {} \/ Cardinality(InFlight) <= num_threads
    /\ Len(futures) <= Len(ranges)
    /\ \A k \in DOMAIN futures :
           futures[k] = [index |-> k - 1, start |-> ranges[k][1],
                         end |-> ranges[k][2]]
    /\ \A i \in Idx : fut[i] # "none" <=> i + 1 \in DOMAIN futures
    /\ pc \in {"collect", "exit", "merge", "copy", "remove", "done"}
           => Len(futures) = Len(ranges)

C10_Witness == num_threads >= 2 /\ Cardinality(InFlight) = num_threads

\* C11: a chunk fetch answered with a status other than 206, or with fewer
\* bytes than end-start+1, does not complete as a success: every future that
\* is done before the merge got 206 and wrote the full length of its range.
C11_BadResponseIsFailure ==
    \A i \in Chunks :
        (pc \in {"submit", "collect", "exit", "merge"} /\ fut[i] = "done") =>
            /\ resp[i].status = 206
            /\ Len(parts[Args(i).index].data)
                   = Args(i).end - Args(i).start + 1

\* C12: when the HEAD response reports no Content-Length the call fails
\* before planning: no range is computed, no chunk fetch is dispatched and
\* no scratch or output file is created.
C12_NoSizeNoPlanning ==
    ~has_length =>
        /\ pc \in {"call", "head", "raised"}
        /\ (pc = "raised" /\ ~InvalidThreads(num_threads)) => err = "KeyError"
        /\ ranges = <<>>
        /\ futures = <<>>
        /\ net.get = {}
        /\ \A i \in Idx : fut[i] = "none" /\ ~parts[i].exists
        /\ ~output.exists

C12_Witness ==
    ~has_length /\ pc = "raised" /\ err = "KeyError" /\ net.head

\* C13: the failure of a chunk fetch leaves download_file_in_chunks only
\* when every submitted chunk fetch has settled, and once the failure has
\* been observed no further chunk fetch is submitted.
C13_FailureAfterAllSettled ==
    [][ /\ (pc' = "raised" /\ err' = "ChunkFetchFailed")
            => \A i \in Chunks : fut'[i] \in {"done", "failed"}
        /\ (err = "ChunkFetchFailed" /\ run' = run)
            => (futures' = futures /\ Len(futures) = Len(ranges)) ]_vars

C13_Witness ==
    /\ pc = "raised"
    /\ err = "ChunkFetchFailed"
    /\ num_threads >= 2
    /\ \E i \in Chunks : fut[i] = "done" /\ i \notin collected

IsPrefix(p, q) == Len(p) <= Len(q) /\ SubSeq(q, 1, Len(p)) = p
IsSuffix(p, q) ==
    Len(p) <= Len(q) /\ SubSeq(q, Len(q) - Len(p) + 1, Len(q)) = p

\* C14: merge_files deletes a scratch file only when it is the entry of
\* temp_files being processed, every earlier entry is already deleted and
\* its full contents are the last bytes written to the output; during the
\* merge the output only grows.
C14_DeleteAfterCopyInListOrder ==
    [][ /\ \A p \in Idx :
             (parts[p].exists /\ ~parts'[p].exists) =>
                 /\ pc = "remove"
                 /\ p = temp_files[merge_pos]
                 /\ \A k \in 1 .. (merge_pos - 1) :
                        ~parts[temp_files[k]].exists
                 /\ IsSuffix(parts[p].data, output.data)
                 /\ output' = output
        /\ pc \in {"copy", "remove"}
             => IsPrefix(output.data, output'.data) ]_vars

C14_Witness ==
    /\ pc = "remove"
    /\ merge_pos = 2
    /\ parts[temp_files[2]].data # <<>>
    /\ ~parts[temp_files[1]].exists

\* Bytes the completed fetch of chunk i wrote to its scratch file: the body
\* of the response it streamed.
Content(i) ==
    ServerResponse(resp[i].mode, Args(i).start, Args(i).end).body

\* Concatenation of the contents of the first k entries of temp_files.
RECURSIVE ConcatFirst(_)
ConcatFirst(k) ==
    IF k = 0 THEN <<>> ELSE ConcatFirst(k - 1) \o Content(temp_files[k])

\* C15: when merge_files fails at an entry of temp_files, exactly the
\* entries before it are deleted, that entry and the later ones exist with
\* their contents unchanged, and the output holds the contents of the
\* earlier entries followed by a prefix of the failing entry's.
C15_MergeFailureLeavesPrefix ==
    (pc = "raised" /\ err = "OSError") =>
        /\ merge_pos \in 1 .. Len(temp_files)
        /\ \A j \in 1 .. (merge_pos - 1) : ~parts[temp_files[j]].exists
        /\ \A j \in merge_pos .. Len(temp_files) :
               parts[temp_files[j]] = File(Content(temp_files[j]))
        /\ \E n \in 0 .. Len(Content(temp_files[merge_pos])) :
               output = File(ConcatFirst(merge_pos - 1)
                             \o SubSeq(Content(temp_files[merge_pos]), 1, n))

C15_Witness ==
    /\ pc = "raised"
    /\ err = "OSError"
    /\ merge_pos = 2
    /\ Len(output.data) > Len(Content(temp_files[1]))
    /\ Len(output.data)
           < Len(Content(temp_files[1])) + Len(Content(temp_files[2]))

\* C16: the submitted chunk fetches have pairwise distinct scratch paths,
\* and a scratch file changes only by a step of the one fetch that owns its
\* path, or by the os.remove of merge_files once every fetch has settled.
C16_ScratchOwnedByOneFetch ==
    [][ /\ \A i, j \in Chunks :
             (i # j /\ fut[i] # "none" /\ fut[j] # "none")
                 => Args(i).index # Args(j).index
        /\ \A p \in Idx :
             parts'[p] # parts[p] =>
                 \/ \E i \in Chunks :
                        /\ fut[i] \in {"queued", "write"}
                        /\ Args(i).index = p
                        /\ \A j \in Chunks \ {i} :
                               fut'[j] = fut[j] /\ resp'[j] = resp[j]
                        /\ pc' = pc
                 \/ /\ pc = "remove"
                    /\ p = temp_files[merge_pos]
                    /\ \A i \in Chunks : Settled(i) ]_vars

C16_Witness ==
    \E i, j \in Chunks :
        /\ i # j
        /\ fut[i] = "write" /\ fut[j] = "write"
        /\ parts[Args(i).index].data # <<>>
        /\ parts[Args(j).index].data # <<>>

\* C17: when merge_files is called, temp_files holds the scratch path of
\* every chunk index 0..num_threads-1 exactly once, whatever the completion
\* order.
C17_TempFilesIsPermutation ==
    pc = "merge" =>
        /\ Len(temp_files) = num_threads
        /\ {temp_files[k] : k \in DOMAIN temp_files} = Chunks
        /\ \A k \in DOMAIN temp_files : parts[temp_files[k]].exists

C17_Witness ==
    pc = "merge" /\ num_threads >= 2 /\ temp_files # IndexOrder

\* C18: for 1 <= num_threads <= total_size the planned ranges start at 0,
\* each next range starts one byte after the end of the one before, and no
\* range has end < start.
C18_RangesContiguous ==
    (pc = "submit" /\ num_threads <= total_size) =>
        /\ Len(ranges) = num_threads
        /\ ranges[1][1] = 0
        /\ \A k \in 1 .. (Len(ranges) - 1) :
               ranges[k + 1][1] = ranges[k][2] + 1
        /\ \A k \in DOMAIN ranges : ranges[k][2] >= ranges[k][1]

C18_Witness ==
    /\ pc = "submit"
    /\ total_size = 10
    /\ num_threads = 3
    /\ ranges = << <<0, 2>>, <<3, 5>>, <<6, 8>> >>

\* No submitted chunk fetch is waiting for a worker or still running.
NoneUnsettled == \A i \in Idx : fut[i] \notin {"queued", "write"}

\* C19: if every submitted chunk fetch eventually settles, the call
\* eventually ends, with the merge complete or a failure raised; and while
\* it waits for results with every submitted fetch settled, the coordinator
\* has a step to take.
C19_TerminatesWhenFetchesSettle ==
    /\ []((pc \in {"collect", "exit"}
             /\ \A i \in Chunks : fut[i] \in {"done", "failed"})
            => ENABLED Coordinator)
    /\ (<>[]NoneUnsettled) => ((pc = "call") ~> (pc \in {"done", "raised"}))

C19_Witness ==
    /\ pc = "raised"
    /\ err = "ChunkFetchFailed"
    /\ collected # {}
    /\ \A i \in Chunks : fut[i] \in {"done", "failed"}

====
